---- MODULE Spec2Model ----
(***************************************************************************)
(* hjson-lint: lexer (Tokens), tree builder (Parser) and Linter.           *)
(*                                                                         *)
(* A text is a sequence of one-character strings; every length and offset  *)
(* is a byte count (the alphabets below are ASCII).  Option<T> is modelled *)
(* as a sequence of length zero (None) or one (Some).                      *)
(*                                                                         *)
(* The lint crate's lexer/symbol.rs is not among the sources at hand (the  *)
(* pre-refactor src/symbol.rs still builds the nested Symbol enum); the    *)
(* symbol recognizer follows hjson-parser/src/lexer/symbol.rs, whose six   *)
(* symbols are the six symbol kinds of lexer/mod.rs.                       *)
(***************************************************************************)
EXTENDS Integers, Sequences, FiniteSets, TLC

VARIABLES
    text,       \* the input handed to Tokens::parse / Parser::parse / Linter::lint
    pc,         \* which entry point has been exercised on this text
    tokens,     \* the Tokens iterator: [input, cursor, text_mode, done]
    emitted,    \* every Some(span) returned by Tokens::next so far, in order
    nones,      \* how many times Tokens::next has returned None
    parsed,     \* outcome of Parser::parse(text), called directly or by Linter::lint
    config,     \* the Config given to Linter::lint
    linted,     \* outcome of Linter::lint(config, text)
    streamed,   \* outcome of the event-stream Parser::parse(text)
    built       \* outcome of Tree::build on those events

vars == <<text, pc, tokens, emitted, nones, parsed, config, linted, streamed, built>>

-----------------------------------------------------------------------------
(* Bounds of the model.                                                    *)

\* longest document explored by Spec, in fragments (see DocAtoms)
MaxLen == 3

\* longest input of the event-stream parser, in fragments (see EventAtoms)
MaxEventLen == 3
\* longest text explored by SpecLex, in characters
MaxLexLen == 4
\* calls of Tokens::next explored after the first None
MaxNone == 2
\* longest text explored by SpecLex after a token of several lines
MaxTailLen == 2
\* longest array explored by Spec behind its first element, in fragments
MaxArrayLen == 4

-----------------------------------------------------------------------------
(* Strings.                                                                *)

NL == "\n"
SP == " "
SQ == "'"

Digits == {"0", "1", "2", "3", "4", "5", "6", "7", "8", "9"}

\* char::is_whitespace, restricted to ASCII
is_whitespace(c) == c \in {SP, "\t", NL, "\r"}

is_ascii_digit(c) == c \in Digits

None == <<>>
Some(x) == <<x>>
unwrap_or(opt, d) == IF opt = None THEN d ELSE opt[1]

\* `let v = ...;` followed by the rest of the block, K
Let(v, K(_)) == K(v)
\* `let r = ...?;` followed by the rest of the block, K: anything but Ok returns
Try(r, K(_)) == IF r.st # "Ok" THEN r ELSE K(r)

\* input[n..]
skip_bytes(s, n) == SubSeq(s, n + 1, Len(s))
\* input[..n]
take_bytes(s, n) == SubSeq(s, 1, n)

starts_with(s, p) == Len(s) >= Len(p) /\ SubSeq(s, 1, Len(p)) = p

ends_with(s, p) == Len(s) >= Len(p) /\ SubSeq(s, Len(s) - Len(p) + 1, Len(s)) = p

SetMin(S) == CHOOSE i \in S : \A j \in S : i <= j
SetMax(S) == CHOOSE i \in S : \A j \in S : i >= j

\* str::find with a predicate: 0-based index of the first matching char
find(s, Test(_)) ==
    LET hits == {i \in 1..Len(s) : Test(s[i])}
    IN  IF hits = {} THEN None ELSE Some(SetMin(hits) - 1)

\* str::find with a pattern string
find_str(s, p) ==
    LET hits == {i \in 0..(Len(s) - Len(p)) : SubSeq(s, i + 1, i + Len(p)) = p}
    IN  IF hits = {} THEN None ELSE Some(SetMin(hits))

\* str::rfind with a char
rfind(s, c) ==
    LET hits == {i \in 1..Len(s) : s[i] = c}
    IN  IF hits = {} THEN None ELSE Some(SetMax(hits) - 1)

\* str::matches(c).count()
count_matches(s, c) == Cardinality({i \in 1..Len(s) : s[i] = c})

\* str::trim_end().len()
trim_end_len(s) ==
    LET keep == {i \in 1..Len(s) : ~is_whitespace(s[i])}
    IN  IF keep = {} THEN 0 ELSE SetMax(keep)

\* str::trim_start_matches with a predicate
trim_start_matches(s, Test(_)) ==
    skip_bytes(s, unwrap_or(find(s, LAMBDA c : ~Test(c)), Len(s)))

-----------------------------------------------------------------------------
(* Tokens and recognizers.                                                 *)

Token(kind, len) == [kind |-> kind, len |-> len]

Cursor(line, column, byte_offset) ==
    [line |-> line, column |-> column, byte_offset |-> byte_offset]

CursorDefault == Cursor(1, 1, 0)

Span(kind, start, len) == [kind |-> kind, start |-> start, len |-> len]

\* Comment::parse
Comment_parse(input) ==
    IF starts_with(input, <<"/", "/">>)
    THEN Some(Token("LineComment", unwrap_or(find(input, LAMBDA c : c = NL), Len(input))))
    ELSE IF starts_with(input, <<"/", "*">>)
    THEN LET close == find_str(skip_bytes(input, 2), <<"*", "/">>)
         IN  IF close = None THEN None ELSE Some(Token("BlockComment", close[1] + 4))
    ELSE IF starts_with(input, <<"#">>)
    THEN Some(Token("HashComment", unwrap_or(find(input, LAMBDA c : c = NL), Len(input))))
    ELSE None

\* symbol::parse
Symbol_parse(input) ==
    IF input = <<>> THEN None
    ELSE CASE input[1] = "{" -> Some(Token("OpenBrace", 1))
           [] input[1] = "}" -> Some(Token("CloseBrace", 1))
           [] input[1] = "[" -> Some(Token("OpenBracket", 1))
           [] input[1] = "]" -> Some(Token("CloseBracket", 1))
           [] input[1] = ":" -> Some(Token("Colon", 1))
           [] input[1] = "," -> Some(Token("Comma", 1))
           [] OTHER -> None

\* a whitespace recognizer that matches an empty run as well
Whitespace_parse_empty(input) ==
    IF starts_with(input, <<NL>>) THEN Some(Token("NewLine", 1))
    ELSE Some(Token("Whitespace",
                    unwrap_or(find(input, LAMBDA c : c = NL \/ ~is_whitespace(c)), Len(input))))

\* Whitespace::parse
Whitespace_parse(input) ==
    IF starts_with(input, <<NL>>) THEN Some(Token("NewLine", 1))
    ELSE LET non_whitespace ==
                 unwrap_or(find(input, LAMBDA c : c = NL \/ ~is_whitespace(c)), Len(input))
         IN  IF non_whitespace = 0 THEN None
             ELSE Some(Token("Whitespace", non_whitespace))

\* the closing-quote search shared by Key::parse and Text::parse:
\* char_indices().find(|(i, c)| i != 0 && c == q && !input[..i].ends_with('\\'))
find_close_quote(input, q) ==
    LET hits == {i \in 1..(Len(input) - 1) :
                     input[i + 1] = q /\ ~ends_with(take_bytes(input, i), <<"\\">>)}
    IN  IF hits = {} THEN None ELSE Some(SetMin(hits))

KeyTerminators == {",", ":", "[", "]", "{", "}"}

\* Key::parse
Key_parse(input) ==
    IF starts_with(input, <<SQ>>)
    THEN LET idx == find_close_quote(input, SQ)
         IN  IF idx = None THEN None ELSE Some(Token("TextSingle", idx[1] + 1))
    ELSE IF starts_with(input, <<"\"">>)
    THEN LET idx == find_close_quote(input, "\"")
         IN  IF idx = None THEN None ELSE Some(Token("TextDouble", idx[1] + 1))
    ELSE Some(Token("TextUnquoted",
                    unwrap_or(find(input, LAMBDA c : is_whitespace(c) \/ c \in KeyTerminators),
                              Len(input))))

\* Text::parse
Text_parse(input) ==
    IF starts_with(input, <<SQ, SQ, SQ>>)
    THEN LET close == find_str(skip_bytes(input, 3), <<SQ, SQ, SQ>>)
         IN  IF close = None THEN None ELSE Some(Token("TextMulti", close[1] + 6))
    ELSE IF starts_with(input, <<SQ>>)
    THEN LET idx == find_close_quote(input, SQ)
         IN  IF idx = None THEN None ELSE Some(Token("TextSingle", idx[1] + 1))
    ELSE IF starts_with(input, <<"\"">>)
    THEN LET idx == find_close_quote(input, "\"")
         IN  IF idx = None THEN None ELSE Some(Token("TextDouble", idx[1] + 1))
    ELSE LET eol == unwrap_or(find(input, LAMBDA c : c = NL), Len(input))
         IN  Some(Token("TextUnquoted", trim_end_len(take_bytes(input, eol))))

\* Boolean::parse
Boolean_parse(input) ==
    IF starts_with(input, <<"t", "r", "u", "e">>) THEN Some(Token("Boolean", 4))
    ELSE IF starts_with(input, <<"f", "a", "l", "s", "e">>) THEN Some(Token("Boolean", 5))
    ELSE None

\* Null::parse
Null_parse(input) ==
    IF starts_with(input, <<"n", "u", "l", "l">>) THEN Some(Token("Null", 4)) ELSE None

NumberTermSymbols == {",", ":", "[", "]", "{", "}", NL}

\* number of leading ASCII digits: find(|c| !c.is_ascii_digit()).unwrap_or(len)
leading_digits(s) == unwrap_or(find(s, LAMBDA c : ~is_ascii_digit(c)), Len(s))

\* a number that accepts whatever follows its digits
Number_parse_end_unchecked(input, at, is_float) ==
    Some(Token(IF is_float THEN "Float" ELSE "Integer", at))

\* Number::parse, the terminator check and the token: `at` bytes are consumed
Number_parse_end(input, at, is_float) ==
    LET rest == trim_start_matches(skip_bytes(input, at),
                                   LAMBDA c : is_whitespace(c) /\ c # NL)
    IN  IF rest = <<>> \/ rest[1] \in NumberTermSymbols
        THEN Some(Token(IF is_float THEN "Float" ELSE "Integer", at))
        ELSE None

\* Number::parse, the exponent digits after the `e` and its optional sign
Number_parse_exp_digits(input, at, is_float, exp_len, exp_digits) ==
    IF exp_digits > 0
    THEN Number_parse_end(input, at + exp_len + exp_digits, TRUE)
    ELSE Number_parse_end(input, at, is_float)

\* Number::parse, the exponent: `at` bytes are consumed
Number_parse_exp_sign(input, at, is_float, exp_len) ==
    Number_parse_exp_digits(input, at, is_float, exp_len,
                            leading_digits(skip_bytes(input, at + exp_len)))

Number_parse_exp(input, at, is_float) ==
    IF starts_with(skip_bytes(input, at), <<"e">>)
       \/ starts_with(skip_bytes(input, at), <<"E">>)
    THEN Number_parse_exp_sign(input, at, is_float,
             IF starts_with(skip_bytes(input, at + 1), <<"+">>)
                \/ starts_with(skip_bytes(input, at + 1), <<"-">>)
             THEN 2 ELSE 1)
    ELSE Number_parse_end(input, at, is_float)

\* a fraction that takes the decimal point even with no digit behind it
Number_parse_frac_digits_bare(input, at, frac_digits) ==
    Number_parse_exp(input, at + 1 + frac_digits, TRUE)

\* Number::parse, the fraction digits after the `.`
Number_parse_frac_digits(input, at, frac_digits) ==
    IF frac_digits > 0
    THEN Number_parse_exp(input, at + 1 + frac_digits, TRUE)
    ELSE Number_parse_exp(input, at, FALSE)

\* Number::parse, the fraction: `at` bytes are consumed
Number_parse_frac(input, at) ==
    IF starts_with(skip_bytes(input, at), <<".">>)
    THEN Number_parse_frac_digits(input, at, leading_digits(skip_bytes(input, at + 1)))
    ELSE Number_parse_exp(input, at, FALSE)

\* Number::parse, the integer digits after the optional sign
Number_parse_int(input, sign, int_digits) ==
    IF int_digits = 0 THEN None ELSE Number_parse_frac(input, sign + int_digits)

\* Number::parse, after the optional sign
Number_parse_sign(input, sign) ==
    Number_parse_int(input, sign,
                     IF starts_with(skip_bytes(input, sign), <<"0">>) THEN 1
                     ELSE leading_digits(skip_bytes(input, sign)))

\* Number::parse
Number_parse(input) ==
    Number_parse_sign(input, IF starts_with(input, <<"-">>) THEN 1 ELSE 0)

\* parsers.into_iter().find_map(|p| p(input))
find_map(results) ==
    LET hits == {i \in 1..Len(results) : results[i] # None}
    IN  IF hits = {} THEN None ELSE results[SetMin(hits)]

\* a priority order that tries the key text last, as for values
next_token_key_last(input, text_mode) ==
    find_map(<<Comment_parse(input), Symbol_parse(input), Whitespace_parse(input)>>
             \o <<Boolean_parse(input), Null_parse(input), Number_parse(input)>>
             \o (IF text_mode = "Key" THEN <<Key_parse(input)>> ELSE <<Text_parse(input)>>))

\* next_token: the recognizers in the priority order of the text mode
next_token(input, text_mode) ==
    find_map(<<Comment_parse(input), Symbol_parse(input), Whitespace_parse(input)>>
             \o (IF text_mode = "Key" THEN <<Key_parse(input)>> ELSE <<>>)
             \o <<Boolean_parse(input), Null_parse(input), Number_parse(input)>>
             \o (IF text_mode = "Key" THEN <<>> ELSE <<Text_parse(input)>>))

TriviaKinds == {"Whitespace", "NewLine", "LineComment", "HashComment", "BlockComment"}

\* Tokens::parse
Tokens_parse(input) ==
    [input |-> input, cursor |-> CursorDefault, text_mode |-> "Key", done |-> FALSE]

\* a mode choice that falls back to Key after trivia as well
next_text_mode_reset(kind, text_mode) == IF kind = "Colon" THEN "Value" ELSE "Key"

\* a mode choice that reads what follows an opening bracket as a value
next_text_mode_value_in_array(kind, text_mode) ==
    IF kind \in {"Colon", "OpenBracket"} THEN "Value"
    ELSE IF kind \in TriviaKinds THEN text_mode
    ELSE "Key"

\* the text_mode chosen by Tokens::next after a token of the given kind
next_text_mode(kind, text_mode) ==
    IF kind = "Colon" THEN "Value"
    ELSE IF kind \in TriviaKinds THEN text_mode
    ELSE "Key"

\* a cursor that counts tokens where Tokens::next counts bytes
advance_by_one(cursor, token_text) ==
    Cursor(cursor.line + count_matches(token_text, NL),
           IF rfind(token_text, NL) = None
           THEN cursor.column + Len(token_text)
           ELSE Len(token_text) - rfind(token_text, NL)[1],
           cursor.byte_offset + 1)

\* a cursor whose column starts again at 1 after a token with a newline,
\* whatever follows the newline inside the token
advance_to_line_start(cursor, token_text) ==
    Cursor(cursor.line + count_matches(token_text, NL),
           IF rfind(token_text, NL) = None
           THEN cursor.column + Len(token_text)
           ELSE 1,
           cursor.byte_offset + Len(token_text))

\* the cursor moved over the token text by Tokens::next
advance(cursor, token_text) ==
    Cursor(cursor.line + count_matches(token_text, NL),
           IF rfind(token_text, NL) = None
           THEN cursor.column + Len(token_text)
           ELSE Len(token_text) - rfind(token_text, NL)[1],
           cursor.byte_offset + Len(token_text))

\* Tokens::next once next_token has returned `token`
Tokens_next_token(self, token) ==
    IF token = None
    THEN [ret |-> None, self |-> self]
    ELSE [ret |-> Some(Span(token[1].kind, self.cursor, token[1].len)),
          self |-> [input |-> skip_bytes(self.input, token[1].len),
                    cursor |-> advance(self.cursor, take_bytes(self.input, token[1].len)),
                    text_mode |-> next_text_mode(token[1].kind, self.text_mode),
                    done |-> self.done]]

\* Tokens::next: [ret |-> Option<Span>, self |-> the iterator afterwards]
Tokens_next(self) ==
    IF self.input = <<>>
    THEN IF self.done
         THEN [ret |-> None, self |-> self]
         ELSE [ret |-> Some(Span("Eof", self.cursor, 0)),
               self |-> [self EXCEPT !.done = TRUE]]
    ELSE Tokens_next_token(self, next_token(self.input, self.text_mode))

\* Tokens::parse(input).collect(): every span up to the first None
RECURSIVE collect_from(_)
RECURSIVE collect_next(_)
collect_from(self) == collect_next(Tokens_next(self))
collect_next(r) == IF r.ret = None THEN <<>> ELSE r.ret \o collect_from(r.self)

collect(input) == collect_from(Tokens_parse(input))

-----------------------------------------------------------------------------
(* Parser.  The token stream is Peekable<Tokens>: `toks` is everything the *)
(* lexer yields before its first None and `pos` the index of the next      *)
(* token; past the end of `toks` both peek() and next() give None.         *)

HIDDEN == {"Whitespace", "NewLine", "LineComment", "HashComment", "BlockComment"}

HIDDEN_LINE == {"Whitespace", "LineComment", "HashComment", "BlockComment"}

KEY == {"TextSingle", "TextDouble", "TextUnquoted"}

VALUE == {"Boolean", "Integer", "Float", "TextSingle", "TextDouble", "TextMulti",
          "TextUnquoted", "Null"}

\* ast::Node::new
Node(before, inner, after) == [before |-> before, inner |-> inner, after |-> after]

\* outcomes of a parser method: Ok(val), Err(ParseError), or a panic
\* (`expect("expected token")` on None), each with the stream position reached
Ok(val, pos) == [st |-> "Ok", val |-> val, pos |-> pos]
Err(expected, got, pos) ==
    [st |-> "Err", val |-> [expected |-> expected, got |-> got], pos |-> pos]
Panic(pos) == [st |-> "Panic", val |-> <<>>, pos |-> pos]

\* Parser::eat: [ret |-> Option<Span>, pos]
eat(toks, pos, kinds) ==
    IF pos > Len(toks) THEN [ret |-> None, pos |-> pos]
    ELSE IF toks[pos].kind \in kinds
    THEN [ret |-> Some(toks[pos]), pos |-> IF toks[pos].kind = "Eof" THEN pos ELSE pos + 1]
    ELSE [ret |-> None, pos |-> pos]

\* Parser::skip: [ret |-> Vec<Span>, pos]
RECURSIVE skip(_, _, _)
RECURSIVE skip_more(_, _, _)
skip(toks, pos, kinds) == skip_more(toks, kinds, eat(toks, pos, kinds))
skip_more(toks, kinds, e) ==
    IF e.ret = None THEN [ret |-> <<>>, pos |-> e.pos]
    ELSE Let(skip(toks, e.pos, kinds),
             LAMBDA more : [ret |-> e.ret \o more.ret, pos |-> more.pos])

\* Display for TokenKind
to_string(kind) ==
    CASE kind = "Eof" -> "EOF"
      [] kind = "Boolean" -> "Boolean"
      [] kind = "LineComment" -> "line comment"
      [] kind = "BlockComment" -> "block comment"
      [] kind = "HashComment" -> "hash comment"
      [] kind = "Null" -> "null"
      [] kind = "Integer" -> "integer"
      [] kind = "Float" -> "float"
      [] kind = "OpenBrace" -> "{"
      [] kind = "CloseBrace" -> "}"
      [] kind = "OpenBracket" -> "["
      [] kind = "CloseBracket" -> "]"
      [] kind = "Colon" -> ":"
      [] kind = "Comma" -> ","
      [] kind = "TextSingle" -> "single-quoted string"
      [] kind = "TextDouble" -> "double-quoted string"
      [] kind = "TextMulti" -> "multi-line string"
      [] kind = "TextUnquoted" -> "unquoted string"
      [] kind = "NewLine" -> "newline"
      [] kind = "Whitespace" -> "whitespace"

\* Parser::expect
expect(toks, pos, kind) ==
    IF pos > Len(toks) THEN Panic(pos)
    ELSE IF toks[pos].kind = kind THEN Ok(toks[pos], pos + 1)
    ELSE Err(to_string(kind), toks[pos], pos + 1)

\* a comma slot that takes a comma only right behind the value
comma_slot_adjacent(toks, pos) ==
    Let(eat(toks, pos, {"Comma"}), LAMBDA comma :
    Let(skip(toks, comma.pos, HIDDEN_LINE), LAMBDA hidden :
    Let(eat(toks, hidden.pos, {"NewLine", "Eof"}), LAMBDA term :
        [val |-> Node(<<>>, comma.ret, hidden.ret \o term.ret), pos |-> term.pos])))

\* the comma slot after a member's or element's value (parse_map_members and
\* parse_array share these lines): [val |-> Node<Option<Span>>, pos]
comma_slot(toks, pos) ==
    Let(skip(toks, pos, HIDDEN_LINE), LAMBDA comma_before :
    Let(eat(toks, comma_before.pos, {"Comma"}), LAMBDA comma :
    Let(IF comma.ret # None THEN skip(toks, comma.pos, HIDDEN_LINE)
        ELSE [ret |-> comma_before.ret, pos |-> comma.pos], LAMBDA hidden :
    Let(eat(toks, hidden.pos, {"NewLine", "Eof"}), LAMBDA term :
        [val |-> Node(IF comma.ret # None THEN comma_before.ret ELSE <<>>,
                      comma.ret,
                      hidden.ret \o term.ret),
         pos |-> term.pos]))))

RECURSIVE parse_map_members_loop(_, _, _)
RECURSIVE parse_value(_, _)
RECURSIVE parse_map(_, _)
RECURSIVE parse_array(_, _)
RECURSIVE parse_array_loop(_, _, _)
RECURSIVE expect_value(_, _)

\* Parser::parse_map_members, the loop with `members` collected so far
parse_map_members_loop(toks, pos, members) ==
    Let(skip(toks, pos, HIDDEN), LAMBDA before :
    Let(eat(toks, before.pos, KEY), LAMBDA key :
        IF key.ret = None THEN Ok(members, key.pos)
        ELSE
    Let(skip(toks, key.pos, HIDDEN), LAMBDA colon_before :
    Try(expect(toks, colon_before.pos, "Colon"), LAMBDA colon :
    Let(skip(toks, colon.pos, HIDDEN), LAMBDA colon_after :
    Try(expect_value(toks, colon_after.pos), LAMBDA value :
    Let(comma_slot(toks, value.pos), LAMBDA comma :
    Let(skip(toks, comma.pos, HIDDEN), LAMBDA after :
        parse_map_members_loop(toks, after.pos,
            Append(members,
                   Node(before.ret,
                        [key |-> key.ret[1],
                         colon |-> Node(colon_before.ret, colon.val, colon_after.ret),
                         value |-> value.val,
                         comma |-> comma.val],
                        after.ret)))))))))))

\* Parser::parse_map_members
parse_map_members(toks, pos) == parse_map_members_loop(toks, pos, <<>>)

\* Parser::parse_value: Ok(Option<ast::Value>)
parse_value(toks, pos) ==
    Try(parse_map(toks, pos), LAMBDA map :
        IF map.val # None
        THEN Ok(Some([type |-> "Map", map |-> map.val[1]]), map.pos)
        ELSE
    Try(parse_array(toks, map.pos), LAMBDA array :
        IF array.val # None
        THEN Ok(Some([type |-> "Array", array |-> array.val[1]]), array.pos)
        ELSE
    Let(eat(toks, array.pos, VALUE), LAMBDA value :
        IF value.ret # None
        THEN Ok(Some([type |-> "Value", span |-> value.ret[1]]), value.pos)
        ELSE Ok(None, value.pos))))

\* a nested map that takes its closing brace if there is one, as a root
\* map without braces would
parse_map_unclosed(toks, pos) ==
    Let(eat(toks, pos, {"OpenBrace"}), LAMBDA open_brace :
        IF open_brace.ret = None THEN Ok(None, open_brace.pos)
        ELSE
    Let(skip(toks, open_brace.pos, HIDDEN_LINE), LAMBDA open_after :
    Try(parse_map_members(toks, open_after.pos), LAMBDA members :
    Let(skip(toks, members.pos, HIDDEN), LAMBDA close_before :
    Let(eat(toks, close_before.pos, {"CloseBrace"}), LAMBDA close_brace :
        Ok(Some([open_brace |-> Node(<<>>, open_brace.ret, open_after.ret),
                 members |-> members.val,
                 close_brace |-> Node(close_before.ret, close_brace.ret, <<>>)]),
           close_brace.pos))))))

\* Parser::parse_map: Ok(Option<ast::Map>)
parse_map(toks, pos) ==
    Let(eat(toks, pos, {"OpenBrace"}), LAMBDA open_brace :
        IF open_brace.ret = None THEN Ok(None, open_brace.pos)
        ELSE
    Let(skip(toks, open_brace.pos, HIDDEN_LINE), LAMBDA open_after :
    Try(parse_map_members(toks, open_after.pos), LAMBDA members :
    Let(skip(toks, members.pos, HIDDEN), LAMBDA close_before :
    Try(expect(toks, close_before.pos, "CloseBrace"), LAMBDA close_brace :
        Ok(Some([open_brace |-> Node(<<>>, open_brace.ret, open_after.ret),
                 members |-> members.val,
                 close_brace |-> Node(close_before.ret, Some(close_brace.val), <<>>)]),
           close_brace.pos))))))

\* Parser::parse_array, the loop with `members` collected so far; on leaving
\* the loop `before` goes to the close bracket
parse_array_loop(toks, pos, members) ==
    Let(skip(toks, pos, HIDDEN), LAMBDA before :
    Try(parse_value(toks, before.pos), LAMBDA value :
        IF value.val = None
        THEN Ok([members |-> members, before |-> before.ret], value.pos)
        ELSE
    Let(comma_slot(toks, value.pos), LAMBDA comma :
        parse_array_loop(toks, comma.pos,
            Append(members,
                   Node(before.ret, [value |-> value.val[1], comma |-> comma.val], <<>>))))))

\* Parser::parse_array: Ok(Option<ast::Array>)
parse_array(toks, pos) ==
    Let(eat(toks, pos, {"OpenBracket"}), LAMBDA open_bracket :
        IF open_bracket.ret = None THEN Ok(None, open_bracket.pos)
        ELSE
    Let(skip(toks, open_bracket.pos, HIDDEN_LINE), LAMBDA open_after :
    Try(parse_array_loop(toks, open_after.pos, <<>>), LAMBDA loop :
    Let(skip(toks, loop.pos, HIDDEN), LAMBDA more :
    Try(expect(toks, more.pos, "CloseBracket"), LAMBDA close_bracket :
        Ok(Some([open_bracket |-> Node(<<>>, open_bracket.ret[1], open_after.ret),
                 members |-> loop.val.members,
                 close_bracket |-> Node(loop.val.before \o more.ret,
                                        close_bracket.val, <<>>)]),
           close_bracket.pos))))))

\* Parser::expect_value
expect_value(toks, pos) ==
    Try(parse_value(toks, pos), LAMBDA value :
        IF value.val # None THEN Ok(value.val[1], value.pos)
        ELSE IF value.pos > Len(toks) THEN Panic(value.pos)
        ELSE Err("value", toks[value.pos], value.pos + 1))

\* Parser::parse_root
parse_root(toks, pos) ==
    Let(skip(toks, pos, HIDDEN), LAMBDA open_before :
    Let(eat(toks, open_before.pos, {"OpenBrace"}), LAMBDA open_brace :
    Let(skip(toks, open_brace.pos, HIDDEN_LINE), LAMBDA open_after :
    Try(parse_map_members(toks, open_after.pos), LAMBDA members :
    Let(skip(toks, members.pos, HIDDEN), LAMBDA close_before :
    Try(IF open_brace.ret # None
        THEN expect(toks, close_before.pos, "CloseBrace")
        ELSE Ok(<<>>, close_before.pos), LAMBDA close_brace :
    Let(skip(toks, close_brace.pos, HIDDEN), LAMBDA close_after :
        Ok([open_brace |-> Node(open_before.ret, open_brace.ret, open_after.ret),
            members |-> members.val,
            close_brace |-> Node(close_before.ret,
                                 IF open_brace.ret # None
                                 THEN Some(close_brace.val) ELSE None,
                                 close_after.ret)],
           close_after.pos))))))))

\* Parser::parse
Parser_parse(input) == parse_root(collect(input), 1)

-----------------------------------------------------------------------------
(* Linter.  `self` is the Linter: its config, the lints pushed so far, and *)
(* whether a rule has panicked (nothing runs after a panic).               *)

AllowDeny == {"Allow", "Deny"}
AllowDenyRequire == {"Require", "Allow", "Deny"}

\* Config::default
ConfigDefault ==
    [trailing_whitespace |-> "Deny", root_braces |-> "Allow", missing_commas |-> "Allow",
     trailing_commas |-> "Allow", unquoted_values |-> "Allow", unquoted_keys |-> "Allow"]

\* Config::strict
ConfigStrict ==
    [trailing_whitespace |-> "Deny", root_braces |-> "Require", missing_commas |-> "Deny",
     trailing_commas |-> "Deny", unquoted_values |-> "Deny", unquoted_keys |-> "Deny"]

Lint(kind, start, len) == [kind |-> kind, span |-> [start |-> start, len |-> len]]

push(self, lint) == [self EXCEPT !.lints = Append(@, lint)]

\* a closure that keeps the pending run over a token that is neither
\* whitespace nor a line end
RECURSIVE trailing_whitespace_kept(_, _, _, _)
trailing_whitespace_kept(self, toks, i, whitespace) ==
    IF i > Len(toks) THEN self
    ELSE IF toks[i].kind = "Whitespace"
    THEN trailing_whitespace_kept(self, toks, i + 1,
             Some([unwrap_or(whitespace, [start |-> toks[i].start, len |-> 0])
                       EXCEPT !.len = @ + toks[i].len]))
    ELSE IF toks[i].kind \in {"NewLine", "Eof"}
    THEN trailing_whitespace_kept(
             IF whitespace # None
             THEN push(self, [kind |-> "TrailingWhitespace", span |-> whitespace[1]])
             ELSE self,
             toks, i + 1, None)
    ELSE trailing_whitespace_kept(self, toks, i + 1, whitespace)

\* the closure of lint_trailing_whitespace over one trivia list, from token i
\* on, with `whitespace` the Option<LintSpan> of the current run
RECURSIVE trailing_whitespace(_, _, _, _)
trailing_whitespace(self, toks, i, whitespace) ==
    IF i > Len(toks) THEN self
    ELSE IF toks[i].kind = "Whitespace"
    THEN trailing_whitespace(self, toks, i + 1,
             Some([unwrap_or(whitespace, [start |-> toks[i].start, len |-> 0])
                       EXCEPT !.len = @ + toks[i].len]))
    ELSE IF toks[i].kind \in {"NewLine", "Eof"}
    THEN trailing_whitespace(
             IF whitespace # None
             THEN push(self, [kind |-> "TrailingWhitespace", span |-> whitespace[1]])
             ELSE self,
             toks, i + 1, None)
    ELSE trailing_whitespace(self, toks, i + 1, None)

\* a rule that runs whatever its axis says
lint_trailing_whitespace_always(self, node) ==
    IF self.panicked THEN self
    ELSE trailing_whitespace(trailing_whitespace(self, node.before, 1, None),
                             node.after, 1, None)

\* Linter::lint_trailing_whitespace
lint_trailing_whitespace(self, node) ==
    IF self.panicked THEN self
    ELSE IF self.config.trailing_whitespace = "Allow" THEN self
    ELSE trailing_whitespace(trailing_whitespace(self, node.before, 1, None),
                             node.after, 1, None)

\* Linter::lint_root_braces
lint_root_braces(self, map) ==
    IF self.panicked THEN self
    ELSE IF self.config.root_braces = "Deny"
    THEN IF map.open_brace.inner # None
         THEN push(self, Lint("ImplicitBraces", map.open_brace.inner[1].start,
                              map.open_brace.inner[1].len))
         ELSE self
    ELSE IF self.config.root_braces = "Require" /\ map.open_brace.inner = None
    THEN LET before == map.open_brace.before
             span == before[Len(before)]
             newline == span.kind = "NewLine"
             cursor == IF before = <<>> THEN CursorDefault
                       ELSE Cursor(span.start.line + (IF newline THEN 1 ELSE 0),
                                   IF newline THEN 1 ELSE span.start.column + span.len,
                                   span.start.byte_offset + span.len)
         IN  push(self, Lint("ImplicitBraces", cursor, 0))
    ELSE self

\* a rule that reports the comma of a last member wherever the line goes on
lint_trailing_comma_any_line(self, comma) ==
    IF self.panicked THEN self
    ELSE IF self.config.trailing_commas = "Allow" THEN self
    ELSE IF self.config.trailing_commas = "Deny"
    THEN IF comma.inner # None
         THEN push(self, Lint("TrailingComma", comma.inner[1].start, comma.inner[1].len))
         ELSE self
    ELSE self

\* a rule that puts the lint for an absent comma at the end of the line
\* instead of right after the value
lint_trailing_comma_at_line_end(self, comma) ==
    IF self.panicked THEN self
    ELSE IF self.config.trailing_commas = "Allow" THEN self
    ELSE IF ~\E i \in 1..Len(comma.after) : comma.after[i].kind \in {"NewLine", "Eof"}
    THEN self
    ELSE IF self.config.trailing_commas = "Deny"
    THEN IF comma.inner # None
         THEN push(self, Lint("TrailingComma", comma.inner[1].start, comma.inner[1].len))
         ELSE self
    ELSE IF comma.inner = None
    THEN push(self, Lint("TrailingComma", comma.after[Len(comma.after)].start, 0))
    ELSE self

\* Linter::lint_trailing_comma
lint_trailing_comma(self, comma) ==
    IF self.panicked THEN self
    ELSE IF self.config.trailing_commas = "Allow" THEN self
    ELSE IF ~\E i \in 1..Len(comma.after) : comma.after[i].kind \in {"NewLine", "Eof"}
    THEN self
    ELSE LET chain == comma.before \o comma.after
         IN  IF chain = <<>> THEN [self EXCEPT !.panicked = TRUE]
             ELSE IF self.config.trailing_commas = "Deny"
             THEN IF comma.inner # None
                  THEN push(self, Lint("TrailingComma", comma.inner[1].start,
                                       comma.inner[1].len))
                  ELSE self
             ELSE IF self.config.trailing_commas = "Require" /\ comma.inner = None
             THEN push(self, Lint("TrailingComma",
                                  IF comma.before = <<>> THEN chain[1].start
                                  ELSE comma.before[1].start,
                                  0))
             ELSE self

\* Linter::lint_missing_comma
lint_missing_comma(self, comma) ==
    IF self.panicked THEN self
    ELSE IF self.config.missing_commas = "Allow" THEN self
    ELSE LET chain == comma.before \o comma.after
         IN  IF chain = <<>> THEN [self EXCEPT !.panicked = TRUE]
             ELSE IF comma.inner = None
             THEN push(self, Lint("MissingComma", chain[1].start, 0))
             ELSE self

RECURSIVE lint_map(_, _)
RECURSIVE lint_map_members(_, _, _)
RECURSIVE lint_map_member(_, _, _)
RECURSIVE lint_array(_, _)
RECURSIVE lint_array_members(_, _, _)
RECURSIVE lint_array_member(_, _, _)
RECURSIVE lint_value(_, _)

\* a walk that reports an unquoted string value when unquoted_values is Deny
lint_value_unquoted_denied(self, value) ==
    IF value.type = "Map" THEN lint_map(self, value.map)
    ELSE IF value.type = "Array" THEN lint_array(self, value.array)
    ELSE IF self.config.unquoted_values = "Deny" /\ value.span.kind = "TextUnquoted"
    THEN push(self, Lint("UnquotedValue", value.span.start, value.span.len))
    ELSE self

\* a walk that treats the braces of a nested map as root braces
lint_value_as_root(self, value) ==
    IF value.type = "Map" THEN lint_map(lint_root_braces(self, value.map), value.map)
    ELSE IF value.type = "Array" THEN lint_array(self, value.array)
    ELSE self

\* Linter::lint_value
lint_value(self, value) ==
    IF value.type = "Map" THEN lint_map(self, value.map)
    ELSE IF value.type = "Array" THEN lint_array(self, value.array)
    ELSE self

\* Linter::lint_map_member
lint_map_member(self, map_member, last) ==
    Let(lint_trailing_whitespace(self, map_member), LAMBDA s1 :
    Let(lint_trailing_whitespace(s1, map_member.inner.comma), LAMBDA s2 :
    Let(lint_value(s2, map_member.inner.value), LAMBDA s3 :
        IF last THEN lint_trailing_comma(s3, map_member.inner.comma)
        ELSE lint_missing_comma(s3, map_member.inner.comma))))

\* the for loop of Linter::lint_map, from member i on
lint_map_members(self, members, i) ==
    IF i > Len(members) THEN self
    ELSE lint_map_members(lint_map_member(self, members[i], i = Len(members)),
                          members, i + 1)

\* Linter::lint_map
lint_map(self, map) ==
    lint_map_members(
        lint_trailing_whitespace(lint_trailing_whitespace(self, map.open_brace),
                                 map.close_brace),
        map.members, 1)

\* Linter::lint_array_member
lint_array_member(self, array_member, last) ==
    Let(lint_trailing_whitespace(self, array_member), LAMBDA s1 :
    Let(lint_trailing_whitespace(s1, array_member.inner.comma), LAMBDA s2 :
    Let(lint_value(s2, array_member.inner.value), LAMBDA s3 :
        IF last THEN lint_trailing_comma(s3, array_member.inner.comma)
        ELSE lint_missing_comma(s3, array_member.inner.comma))))

\* the for loop of Linter::lint_array, from member i on
lint_array_members(self, members, i) ==
    IF i > Len(members) THEN self
    ELSE lint_array_members(lint_array_member(self, members[i], i = Len(members)),
                            members, i + 1)

\* Linter::lint_array
lint_array(self, array) == lint_array_members(self, array.members, 1)

\* Linter::lint_root
lint_root(self, map) == lint_map(lint_root_braces(self, map), map)

\* Linter::lint once Parser::parse has returned `ast`
Linter_lint_ast(cfg, ast) ==
    IF ast.st # "Ok" THEN [st |-> ast.st, val |-> ast.val]
    ELSE Let(lint_root([config |-> cfg, lints |-> <<>>, panicked |-> FALSE], ast.val),
             LAMBDA linter :
                 IF linter.panicked THEN [st |-> "Panic", val |-> <<>>]
                 ELSE [st |-> "Ok", val |-> linter.lints])

\* Linter::lint: Ok(Vec<Lint>), Err(ParseError), or a panic
Linter_lint(cfg, input) == Linter_lint_ast(cfg, Parser_parse(input))

-----------------------------------------------------------------------------
(* The event-stream parser of the hjson-parser crate.  Its token kinds     *)
(* LBrace, RBrace, LBracket, RBracket and Bool are written OpenBrace,      *)
(* CloseBrace, OpenBracket, CloseBracket and Boolean, as in the lint       *)
(* crate.  comment::parse, symbol::parse, key::parse and text::parse have  *)
(* the code of their lint counterparts; number::parse differs from         *)
(* Number::parse by an early `return None` for an exponent marker without  *)
(* digits, where Number::parse fails its terminator check on the marker.   *)
(* `p` is the Parser: input, current token, context stack, events, and     *)
(* whether lexer::token has panicked ("no parser matched").                *)

\* whitespace::parse of hjson-parser: the end of the input is a token
lexer_whitespace_parse(input) ==
    IF input = <<>> THEN Some(Token("Eof", 0)) ELSE Whitespace_parse(input)

\* keyword::parse
keyword_parse(input) ==
    IF starts_with(input, <<"t", "r", "u", "e">>) THEN Some(Token("Boolean", 4))
    ELSE IF starts_with(input, <<"f", "a", "l", "s", "e">>) THEN Some(Token("Boolean", 5))
    ELSE IF starts_with(input, <<"n", "u", "l", "l">>) THEN Some(Token("Null", 4))
    ELSE None

\* lexer::token, before its expect("no parser matched")
lexer_token(input, context) ==
    find_map(<<lexer_whitespace_parse(input), Comment_parse(input), keyword_parse(input),
               Number_parse(input), Symbol_parse(input),
               IF context = "Key" THEN Key_parse(input) ELSE Text_parse(input)>>)

\* Event
EventOpen(kind) == [type |-> "Open", kind |-> kind]
EventClose == [type |-> "Close"]
EventAdvance(token) == [type |-> "Advance", token |-> token]

DECO == {"Whitespace", "LineComment", "HashComment", "BlockComment"}

SEPARATOR == {"Whitespace", "LineComment", "HashComment", "BlockComment", "NewLine"}

EVENT_VALUE ==
    {"Boolean", "Null", "Integer", "Float", "TextSingle", "TextDouble", "TextMulti",
     "TextUnquoted", "OpenBrace", "OpenBracket"}

\* Parser::relex_token
relex_token(p) ==
    IF p.panicked THEN p
    ELSE Let(lexer_token(p.input, p.context[Len(p.context)]), LAMBDA token :
             IF token = None THEN [p EXCEPT !.panicked = TRUE]
             ELSE [p EXCEPT !.current = token[1]])

\* Parser::open; the mark it returns is the index of the new event
EventParser_open(p) == [p EXCEPT !.events = Append(@, EventOpen("ErrorTree"))]

mark_of(p) == Len(p.events) + 1

\* Parser::close
EventParser_close(p, mark, kind) ==
    IF p.panicked THEN p
    ELSE [p EXCEPT !.events = Append([@ EXCEPT ![mark] = EventOpen(kind)], EventClose)]

\* Parser::advance
EventParser_advance(p) ==
    IF p.panicked THEN p
    ELSE relex_token([p EXCEPT !.input = skip_bytes(@, p.current.len),
                               !.events = Append(@, EventAdvance(p.current))])

\* Parser::eof, Parser::at, Parser::at_any
eof(p) == p.input = <<>>
EventParser_at(p, kind) == p.current.kind = kind
at_any(p, kinds) == p.current.kind \in kinds

\* Parser::eat_any (Parser::eat with one kind); whether it ate is at_any before
eat_any(p, kinds) == IF ~p.panicked /\ at_any(p, kinds) THEN EventParser_advance(p) ELSE p

\* Parser::eat_all
RECURSIVE eat_all(_, _)
eat_all(p, kinds) ==
    IF ~p.panicked /\ at_any(p, kinds) THEN eat_all(EventParser_advance(p), kinds) ELSE p

\* Parser::expect and Parser::expect_some: eat, or report and stay
EventParser_expect(p, kind) == eat_any(p, {kind})
expect_some(p, kinds) == eat_any(p, kinds)

\* Parser::advance_with_error without its close
advance_with_error_unclosed(p) == EventParser_advance(EventParser_open(p))

\* Parser::advance_with_error
advance_with_error(p) ==
    EventParser_close(EventParser_advance(EventParser_open(p)), mark_of(p), "ErrorTree")

\* Parser::push_context
push_context(p, context) ==
    IF p.panicked THEN p
    ELSE IF p.context[Len(p.context)] # context
    THEN relex_token([p EXCEPT !.context = Append(@, context)])
    ELSE [p EXCEPT !.context = Append(@, context)]

\* Parser::pop_context
pop_context(p) ==
    IF p.panicked THEN p
    ELSE IF p.context[Len(p.context)] # p.context[Len(p.context) - 1]
    THEN relex_token([p EXCEPT !.context = SubSeq(@, 1, Len(@) - 1)])
    ELSE [p EXCEPT !.context = SubSeq(@, 1, Len(@) - 1)]

-----------------------------------------------------------------------------
EVENT_KEY == {"TextSingle", "TextDouble", "TextUnquoted"}

RECURSIVE EventParser_map(_, _), EventParser_map_members(_, _), EventParser_mapping(_),
          EventParser_array(_), EventParser_array_elements(_), EventParser_value(_)

\* the separator that map and array expect behind a member or an element
expect_separator(p) ==
    IF ~p.panicked /\ ~EventParser_at(p, "CloseBrace") /\ ~eof(p)
    THEN expect_some(p, {"Comma", "NewLine"})
    ELSE p

expect_element_separator(p) ==
    IF ~p.panicked /\ ~EventParser_at(p, "CloseBracket") /\ ~eof(p)
    THEN expect_some(p, {"Comma", "NewLine"})
    ELSE p

\* the `while !p.eof()` loop of map
EventParser_map_members(p, braces) ==
    IF p.panicked \/ eof(p) THEN p
    ELSE Let(eat_all(p, SEPARATOR), LAMBDA q :
             IF q.panicked THEN q
             ELSE IF EventParser_at(q, "CloseBrace")
             THEN IF braces THEN q
                  ELSE EventParser_map_members(advance_with_error(q), braces)
             ELSE IF at_any(q, EVENT_KEY)
             THEN EventParser_map_members(
                      expect_separator(eat_all(EventParser_mapping(q), DECO)), braces)
             ELSE EventParser_map_members(advance_with_error(q), braces))

\* map
EventParser_map(p, braces) ==
    Let(EventParser_map_members(
            IF braces THEN EventParser_expect(EventParser_open(p), "OpenBrace")
            ELSE EventParser_open(p),
            braces),
        LAMBDA q :
            EventParser_close(IF braces THEN EventParser_expect(q, "CloseBrace") ELSE q,
                              mark_of(p), "Map"))

\* mapping
EventParser_mapping(p) ==
    Let(push_context(p, "Key"), LAMBDA k :
        Let(eat_all(EventParser_expect(
                        eat_all(expect_some(EventParser_open(k), EVENT_KEY), SEPARATOR),
                        "Colon"),
                    SEPARATOR),
            LAMBDA q :
                pop_context(
                    EventParser_close(
                        IF q.panicked THEN q
                        ELSE IF at_any(q, EVENT_VALUE) THEN EventParser_value(q)
                        ELSE advance_with_error(q),
                        mark_of(k), "Mapping"))))

\* the `while !p.eof()` loop of array
EventParser_array_elements(p) ==
    IF p.panicked \/ eof(p) THEN p
    ELSE Let(eat_all(p, SEPARATOR), LAMBDA q :
             IF q.panicked \/ EventParser_at(q, "CloseBracket") THEN q
             ELSE IF at_any(q, EVENT_VALUE)
             THEN EventParser_array_elements(
                      expect_element_separator(eat_all(EventParser_value(q), DECO)))
             ELSE EventParser_array_elements(advance_with_error(q)))

\* array
EventParser_array(p) ==
    EventParser_close(
        EventParser_expect(
            EventParser_array_elements(
                EventParser_expect(EventParser_open(p), "OpenBracket")),
            "CloseBracket"),
        mark_of(p), "Array")

\* value
EventParser_value(p) ==
    Let(push_context(p, "Value"), LAMBDA q :
        pop_context(
            IF q.panicked THEN q
            ELSE IF EventParser_at(q, "OpenBrace") THEN EventParser_map(q, TRUE)
            ELSE IF EventParser_at(q, "OpenBracket") THEN EventParser_array(q)
            ELSE expect_some(q, EVENT_VALUE)))

\* file
EventParser_file(p) ==
    Let(eat_all(EventParser_open(p), SEPARATOR), LAMBDA q :
        EventParser_close(
            IF q.panicked THEN q
            ELSE IF EventParser_at(q, "OpenBrace") THEN EventParser_map(q, TRUE)
            ELSE IF at_any(q, EVENT_KEY) THEN EventParser_map(q, FALSE)
            ELSE advance_with_error(q),
            mark_of(p), "File"))

\* Parser::parse of hjson-parser: the events, or the panic of lexer::token
EventParser_parse(input) ==
    Let(EventParser_file(relex_token([input |-> input, current |-> Token("Eof", 0),
                                      context |-> <<"Key">>, events |-> <<>>,
                                      panicked |-> FALSE])),
        LAMBDA p : IF p.panicked THEN [st |-> "Panic", events |-> <<>>]
                   ELSE [st |-> "Ok", events |-> p.events])

\* Tree and Child
Tree(kind, children) == [kind |-> kind, children |-> children]
ChildToken(token) == [type |-> "Token", token |-> token]
ChildTree(tree) == [type |-> "Tree", tree |-> tree]

\* push a child onto stack.last_mut().unwrap().children
push_child(stack, child) ==
    [stack EXCEPT ![Len(stack)].children = Append(@, child)]

\* the `for event in events` loop of Tree::build from event i on: the stack
\* it leaves, or the panic of an unwrap on an empty stack
RECURSIVE build_events(_, _, _)
build_events(events, i, stack) ==
    IF i > Len(events) THEN [st |-> "Ok", stack |-> stack]
    ELSE IF events[i].type = "Open"
    THEN build_events(events, i + 1, Append(stack, Tree(events[i].kind, <<>>)))
    ELSE IF events[i].type = "Close"
    THEN IF Len(stack) < 2 THEN [st |-> "Panic", stack |-> stack]
         ELSE build_events(events, i + 1,
                           push_child(SubSeq(stack, 1, Len(stack) - 1),
                                      ChildTree(stack[Len(stack)])))
    ELSE IF stack = <<>> THEN [st |-> "Panic", stack |-> stack]
         ELSE build_events(events, i + 1, push_child(stack, ChildToken(events[i].token)))

\* Tree::build: the tree, or the panic of an assertion or an unwrap
Tree_build(events) ==
    IF events = <<>> \/ events[Len(events)].type # "Close"
    THEN [st |-> "Panic", val |-> <<>>]
    ELSE Let(build_events(SubSeq(events, 1, Len(events) - 1), 1, <<>>), LAMBDA r :
             IF r.st = "Panic" \/ Len(r.stack) # 1
             THEN [st |-> "Panic", val |-> <<>>]
             ELSE [st |-> "Ok", val |-> r.stack[1]])

(* The state machine: a text is chosen, then one entry point is exercised  *)
(* on it.  SpecLex drives the token iterator call by call; Spec calls      *)
(* Parser::parse, or Linter::lint with some configuration.                 *)

\* every concatenation of at most n fragments
RECURSIVE Concatenations(_, _)
Concatenations(atoms, n) ==
    IF n = 0 THEN {<<>>}
    ELSE LET shorter == Concatenations(atoms, n - 1)
         IN  shorter \cup {a \o t : a \in atoms, t \in shorter}

\* documents: single characters, and five longer fragments (a member with
\* and without a comma, a key with an opening bracket or brace, and a block
\* comment of two lines) so that documents with several members, with
\* arrays, with nested maps and with multi-line trivia lie within the bound
DocAtoms ==
    {<<"1">>, <<":">>, <<",">>, <<"{">>, <<"}">>, <<"[">>, <<"]">>, <<SP>>, <<NL>>,
     <<SQ>>, <<"1", ":", "1">>, <<"1", ":", "1", ",">>,
     <<"1", ":", "[">>, <<"1", ":", "{">>, <<"/", "*", NL, "*", "/">>}

\* documents with a hash comment: the comment sign between two fragments
HashTexts == {before \o <<"#">> \o after : before, after \in DocAtoms \cup {<<>>}}

\* documents of one member whose value is an array: the first element, and
\* what follows it
ArrayHead == <<"1", ":", "[", "1">>

ArrayAtoms == {<<"1">>, <<",">>, <<NL>>, <<SP>>, <<"]">>}

DocTexts ==
    Concatenations(DocAtoms, MaxLen)
        \cup HashTexts
        \cup {ArrayHead \o tail : tail \in Concatenations(ArrayAtoms, MaxArrayLen)}

\* documents of one member whose value is an array, for the kinds of its
\* elements: numbers, keywords, words, quotes, separators and a nested map
ElementHead == <<"1", ":", "[">>

ElementAtoms ==
    {<<"1">>, <<"1", ".", "1">>, <<"n", "u", "l", "l">>, <<"t", "r", "u", "e">>, <<"a">>,
     <<SQ>>, <<",">>, <<NL>>, <<"]">>, <<"{", "a", ":", "1", "}">>}

ElementTexts == {ElementHead \o tail : tail \in Concatenations(ElementAtoms, MaxArrayLen)}

\* lexer inputs: every string over these characters (the double quote, whose
\* code in Key::parse and Text::parse repeats that of the single quote,
\* comes in with LexQuoted)
LexAlphabet == {"a", "1", ":", ",", SP, NL, SQ, "\\", "/", "*", "#"}

\* double-quoted strings: unterminated, as a key, as a value, and with an
\* escaped quote inside
LexQuoted ==
    {<<"\"">>, <<"\"", "a", "\"">>, <<":", "\"", "a", "\"">>, <<"\"", "\\", "\"", "\"">>}

\* the tokens of the lexer that span several lines: a block comment, and a
\* multi-line string after a colon
LexMultiLine ==
    {<<"/", "*", NL, "*", "/">>, <<":", SQ, SQ, SQ, NL, SQ, SQ, SQ>>}

\* values that start as numbers with a sign, a fraction or an exponent, and
\* values that start like numbers but lack a part of one
LexNumbers ==
    {<<":", "-", "1">>, <<":", "1", ".", "1">>, <<":", "1", "e", "1">>,
     <<":", "+", "1">>, <<":", "-">>, <<":", ".", "1">>, <<":", "-", ".", "1">>,
     <<":", "0", "1">>, <<":", "1", ".">>, <<":", "1", "e">>,
     <<":", "1", ".", "1", "e", "+">>}

\* the keywords, as a key and as a value
LexWords ==
    {<<"t", "r", "u", "e">>, <<"f", "a", "l", "s", "e">>, <<"n", "u", "l", "l">>,
     <<":", "t", "r", "u", "e">>, <<":", "f", "a", "l", "s", "e">>,
     <<":", "n", "u", "l", "l">>}

LexTexts ==
    UNION {[1..n -> LexAlphabet] : n \in 0..MaxLexLen}
        \cup {head \o tail : head \in LexMultiLine \cup LexNumbers \cup LexWords \cup LexQuoted,
                             tail \in UNION {[1..n -> LexAlphabet] : n \in 0..MaxTailLen}}

\* Config { <one axis>, ..Default::default() } as the tests build it, and the presets
Configs ==
    {ConfigDefault, ConfigStrict}
    \cup {[ConfigDefault EXCEPT !.trailing_whitespace = "Allow"]}
    \cup {[ConfigDefault EXCEPT !.root_braces = v] : v \in AllowDenyRequire}
    \cup {[ConfigDefault EXCEPT !.missing_commas = v] : v \in AllowDeny}
    \cup {[ConfigDefault EXCEPT !.trailing_commas = v] : v \in AllowDenyRequire}

NotRun == [st |-> "NotRun", val |-> <<>>]

\* inputs of the event-stream parser: single characters, and a key with a
\* colon alone, with a number, and with an opening brace or bracket
EventAtoms ==
    {<<"a">>, <<"1">>, <<":">>, <<",">>, <<"{">>, <<"}">>, <<"[">>, <<"]">>,
     <<SP>>, <<NL>>, <<SQ>>,
     <<"a", ":">>, <<"a", ":", "1">>, <<"a", ":", "{">>, <<"a", ":", "[">>}

EventTexts == Concatenations(EventAtoms, MaxEventLen)

InitWith(texts) ==
    /\ text \in texts
    /\ pc = "idle"
    /\ tokens = Tokens_parse(text)
    /\ emitted = <<>>
    /\ nones = 0
    /\ parsed = NotRun
    /\ config = ConfigDefault
    /\ linted = NotRun
    /\ streamed = [st |-> "NotRun", events |-> <<>>]
    /\ built = NotRun

Init == InitWith(DocTexts)

InitLex == InitWith(LexTexts)

InitEvents == InitWith(EventTexts)

InitArrays == InitWith(ElementTexts)

\* one call of Tokens::next
TokensNext ==
    /\ pc \in {"idle", "lexing"}
    /\ nones < MaxNone
    /\ Let(Tokens_next(tokens), LAMBDA r :
           /\ tokens' = r.self
           /\ emitted' = emitted \o r.ret
           /\ nones' = IF r.ret = None THEN nones + 1 ELSE nones)
    /\ pc' = "lexing"
    /\ UNCHANGED <<text, parsed, config, linted, streamed, built>>

\* Parser::parse(text)
Parse ==
    /\ pc = "idle"
    /\ parsed' = Parser_parse(text)
    /\ pc' = "parsed"
    /\ UNCHANGED <<text, tokens, emitted, nones, config, linted, streamed, built>>

\* Linter::lint(cfg, text), with the outcome of the Parser::parse it calls
LintText ==
    /\ pc = "idle"
    /\ Let(Parser_parse(text), LAMBDA ast :
           /\ parsed' = ast
           /\ \E cfg \in Configs :
                  /\ config' = cfg
                  /\ linted' = Linter_lint_ast(cfg, ast))
    /\ pc' = "linted"
    /\ UNCHANGED <<text, tokens, emitted, nones, streamed, built>>

\* the event-stream Parser::parse(text)
EventsParse ==
    /\ pc = "idle"
    /\ streamed' = EventParser_parse(text)
    /\ pc' = "streamed"
    /\ UNCHANGED <<text, tokens, emitted, nones, parsed, config, linted, built>>

\* Tree::build on the events that Parser::parse returned
TreeBuild ==
    /\ pc = "streamed"
    /\ streamed.st = "Ok"
    /\ built' = Tree_build(streamed.events)
    /\ pc' = "built"
    /\ UNCHANGED <<text, tokens, emitted, nones, parsed, config, linted, streamed>>

Next == Parse \/ LintText

Spec == Init /\ [][Next]_vars

NextLex == TokensNext

SpecLex == InitLex /\ [][NextLex]_vars

NextArrays == Parse

SpecArrays == InitArrays /\ [][NextArrays]_vars

NextEvents == EventsParse \/ TreeBuild

SpecEvents == InitEvents /\ [][NextEvents]_vars

-----------------------------------------------------------------------------
(* Properties of the lexer, checked under SpecLex.                         *)

\* C1: the spans returned by successive Tokens::next calls tile the input:
\* the first starts at byte 0 and each next one where the previous ended; an
\* Eof span is zero-length, sits at the input length and is the last span;
\* once the lexer has reached the end of the text and a call has returned
\* nothing, exactly one Eof has been emitted and nothing follows it.
C1_SpansTileInput ==
    /\ \A i \in 1..Len(emitted) :
           /\ emitted[i].start.byte_offset =
                  IF i = 1 THEN 0
                  ELSE emitted[i - 1].start.byte_offset + emitted[i - 1].len
           /\ emitted[i].kind = "Eof" =>
                  /\ i = Len(emitted)
                  /\ emitted[i].len = 0
                  /\ emitted[i].start.byte_offset = Len(text)
    /\ tokens.input = <<>> /\ nones > 0 =>
           /\ emitted # <<>>
           /\ emitted[Len(emitted)].kind = "Eof"

\* a text of several tokens lexed to its end, with next called twice more
C1_Witness ==
    /\ tokens.input = <<>>
    /\ nones = MaxNone
    /\ Len(emitted) >= 3
    /\ \E i \in 1..Len(emitted) : emitted[i].len > 1

\* C6: wherever the lexer stands with input remaining, in Key mode and in
\* Value mode, some recognizer matches, so that the token sequence ends with
\* the Eof span and a call returns nothing only after it.
C6_NoDeadEnd ==
    /\ tokens.input # <<>> => next_token(tokens.input, tokens.text_mode) # None
    /\ nones > 0 => emitted # <<>> /\ emitted[Len(emitted)].kind = "Eof"

-----------------------------------------------------------------------------
(* Properties of Parser::parse and Linter::lint, checked under Spec.       *)

\* the spans of a tree in tree order: every node's before, inner and after
RECURSIVE value_spans(_)
RECURSIVE map_members_spans(_, _)
RECURSIVE array_members_spans(_, _)

option_node_spans(node) == node.before \o node.inner \o node.after

map_spans(map) ==
    option_node_spans(map.open_brace)
    \o map_members_spans(map.members, 1)
    \o option_node_spans(map.close_brace)

array_spans(array) ==
    array.open_bracket.before \o <<array.open_bracket.inner>> \o array.open_bracket.after
    \o array_members_spans(array.members, 1)
    \o array.close_bracket.before \o <<array.close_bracket.inner>>
    \o array.close_bracket.after

value_spans(value) ==
    IF value.type = "Map" THEN map_spans(value.map)
    ELSE IF value.type = "Array" THEN array_spans(value.array)
    ELSE <<value.span>>

map_members_spans(members, i) ==
    IF i > Len(members) THEN <<>>
    ELSE members[i].before
         \o <<members[i].inner.key>>
         \o members[i].inner.colon.before \o <<members[i].inner.colon.inner>>
         \o members[i].inner.colon.after
         \o value_spans(members[i].inner.value)
         \o option_node_spans(members[i].inner.comma)
         \o members[i].after
         \o map_members_spans(members, i + 1)

array_members_spans(members, i) ==
    IF i > Len(members) THEN <<>>
    ELSE members[i].before
         \o value_spans(members[i].inner.value)
         \o option_node_spans(members[i].inner.comma)
         \o members[i].after
         \o array_members_spans(members, i + 1)

without_eof(spans) == SelectSeq(spans, LAMBDA span : span.kind # "Eof")

\* the lexer stopped before the end of the input: its spans do not end in Eof
dead_end(spans) == spans = <<>> \/ spans[Len(spans)].kind # "Eof"

\* C2: parse returns either a Map or a ParseError and never aborts otherwise.
C2_ParseReturns == pc = "parsed" => parsed.st \in {"Ok", "Err"}

\* C3: when parse succeeds, the spans of the returned tree, in tree order
\* and Eof excluded, are exactly the lexer's token sequence.
C3_TreeKeepsTokens ==
    pc = "parsed" /\ parsed.st = "Ok" =>
        without_eof(map_spans(parsed.val)) = without_eof(collect(text))

\* C4: parse returns a Map only when the whole input has been consumed: no
\* token other than trivia and Eof remains after the root map.
C4_MapConsumesInput ==
    pc = "parsed" /\ parsed.st = "Ok" =>
        Let(collect(text), LAMBDA toks :
            \A i \in parsed.pos..Len(toks) : toks[i].kind \in HIDDEN \cup {"Eof"})

\* C5: when the lexer stops before the end of the input, neither parse nor
\* lint returns a successful result.
C5_DeadEndIsFatal ==
    dead_end(collect(text)) =>
        /\ pc = "parsed" => parsed.st # "Ok"
        /\ pc = "linted" => linted.st # "Ok"

\* C7: lint returns the ParseError of parse exactly when parse fails, and a
\* diagnostic list for every text that parses, under every configuration.
C7_LintReturns ==
    pc = "linted" =>
        Let(Parser_parse(text), LAMBDA ast :
            /\ ast.st = "Err" => linted = [st |-> "Err", val |-> ast.val]
            /\ linted.st = "Err" => ast.st = "Err"
            /\ ast.st = "Ok" => linted.st = "Ok")

\* C8: the diagnostic list is in document order: start byte offsets never
\* decrease along it.
C8_DocumentOrder ==
    pc = "linted" /\ linted.st = "Ok" =>
        \A j \in 2..Len(linted.val) :
            linted.val[j].span.start.byte_offset
                >= linted.val[j - 1].span.start.byte_offset

\* C9: under trailing_whitespace = Deny, every whitespace run of a document
\* that parses which is immediately followed by a newline or the end of
\* input is reported by exactly one TrailingWhitespace lint, with the run's
\* cursor and byte length.
C9_EveryTrailingRunReported ==
    pc = "linted" /\ linted.st = "Ok" /\ config.trailing_whitespace = "Deny" =>
        Let(collect(text), LAMBDA toks :
            \A i \in 1..(Len(toks) - 1) :
                toks[i].kind = "Whitespace" /\ toks[i + 1].kind \in {"NewLine", "Eof"} =>
                    Cardinality({j \in 1..Len(linted.val) :
                        linted.val[j] = [kind |-> "TrailingWhitespace",
                                         span |-> [start |-> toks[i].start,
                                                   len |-> toks[i].len]]}) = 1)

\* C10: every TrailingWhitespace lint spans a Whitespace token and nothing
\* else, and the byte right after it is a newline or the end of the input
\* (whitespace followed on its line by any other token is not reported).
C10_OnlyTrailingRunsReported ==
    pc = "linted" /\ linted.st = "Ok" =>
        Let(collect(text), LAMBDA toks :
            \A j \in 1..Len(linted.val) :
                linted.val[j].kind = "TrailingWhitespace" =>
                    /\ \E i \in 1..Len(toks) :
                           /\ toks[i].kind = "Whitespace"
                           /\ toks[i].start = linted.val[j].span.start
                           /\ toks[i].len = linted.val[j].span.len
                    /\ Let(linted.val[j].span.start.byte_offset + linted.val[j].span.len,
                           LAMBDA end : end = Len(text) \/ text[end + 1] = NL))

\* a document with one whitespace run that is reported and another, followed
\* on its line by a token, that is not
C10_Witness ==
    /\ pc = "linted"
    /\ linted.st = "Ok"
    /\ \E j \in 1..Len(linted.val) : linted.val[j].kind = "TrailingWhitespace"
    /\ Let(collect(text), LAMBDA toks :
           \E i \in 1..(Len(toks) - 1) :
               /\ toks[i].kind = "Whitespace"
               /\ toks[i + 1].kind \notin {"NewLine", "Eof"})

\* the axis of the configuration that governs a lint kind
axis_of(cfg, kind) ==
    CASE kind = "TrailingWhitespace" -> cfg.trailing_whitespace
      [] kind = "ImplicitBraces" -> cfg.root_braces
      [] kind = "MissingComma" -> cfg.missing_commas
      [] kind = "TrailingComma" -> cfg.trailing_commas

\* C11: lint reports a lint of some kind only if the axis of that kind is
\* not Allow; the default preset yields TrailingWhitespace lints only.
C11_AllowedRulesSilent ==
    pc = "linted" /\ linted.st = "Ok" =>
        \A j \in 1..Len(linted.val) :
            /\ axis_of(config, linted.val[j].kind) # "Allow"
            /\ config = ConfigDefault => linted.val[j].kind = "TrailingWhitespace"

\* a document whose trailing whitespace the default preset reports, linted
\* with trailing_whitespace = Allow: nothing is reported
C11_Witness ==
    /\ pc = "linted"
    /\ linted = [st |-> "Ok", val |-> <<>>]
    /\ config.trailing_whitespace = "Allow"
    /\ Linter_lint(ConfigDefault, text).val # <<>>

\* the byte offset right after the last span of a value
value_end(value) ==
    Let(value_spans(value),
        LAMBDA spans : spans[Len(spans)].start.byte_offset + spans[Len(spans)].len)

\* the lints of one kind in a diagnostic list, and their byte offsets
lints_of(lints, kind) == SelectSeq(lints, LAMBDA lint : lint.kind = kind)

lint_offsets(lints) == {lints[j].span.start.byte_offset : j \in 1..Len(lints)}

\* where commas are missing in a tree: the end of the value of every
\* non-final member or element whose comma slot holds no comma
RECURSIVE missing_comma_sites(_)
RECURSIVE members_missing_comma_sites(_, _)

missing_comma_sites(value) ==
    IF value.type = "Map" THEN members_missing_comma_sites(value.map.members, 1)
    ELSE IF value.type = "Array" THEN members_missing_comma_sites(value.array.members, 1)
    ELSE {}

members_missing_comma_sites(members, i) ==
    IF i > Len(members) THEN {}
    ELSE (IF i < Len(members) /\ members[i].inner.comma.inner = None
          THEN {value_end(members[i].inner.value)} ELSE {})
         \cup missing_comma_sites(members[i].inner.value)
         \cup members_missing_comma_sites(members, i + 1)

\* C12: under missing_commas = Deny, for every document that parses, the
\* result holds exactly one zero-length MissingComma lint right after the
\* value of each non-final member or element without a comma, and no other
\* MissingComma lint.
C12_MissingCommasReported ==
    pc = "linted" /\ config.missing_commas = "Deny" =>
        Let(Parser_parse(text), LAMBDA ast :
            ast.st = "Ok" =>
                /\ linted.st = "Ok"
                /\ Let(lints_of(linted.val, "MissingComma"), LAMBDA lints :
                       /\ lint_offsets(lints) = members_missing_comma_sites(ast.val.members, 1)
                       /\ Len(lints) = Cardinality(lint_offsets(lints))
                       /\ \A j \in 1..Len(lints) : lints[j].span.len = 0))

\* the cursor of a byte offset of a text: line 1 plus the newlines before
\* it, column 1 plus the bytes since the last of them
cursor_at(input, offset) ==
    Let({i \in 1..offset : input[i] = NL}, LAMBDA newlines :
        Cursor(1 + Cardinality(newlines),
               1 + offset - (IF newlines = {} THEN 0 ELSE SetMax(newlines)),
               offset))

\* the tokens that follow the leading trivia of a token sequence
after_leading_trivia(toks) ==
    Let({i \in 1..Len(toks) : toks[i].kind \notin HIDDEN}, LAMBDA rest :
        IF rest = {} THEN <<>> ELSE SubSeq(toks, SetMin(rest), Len(toks)))

\* the byte offset where the leading trivia of a token sequence ends
leading_trivia_end(toks) ==
    IF after_leading_trivia(toks) # <<>>
    THEN after_leading_trivia(toks)[1].start.byte_offset
    ELSE IF toks = <<>> THEN 0
    ELSE toks[Len(toks)].start.byte_offset + toks[Len(toks)].len

has_root_brace(toks) ==
    after_leading_trivia(toks) # <<>> /\ after_leading_trivia(toks)[1].kind = "OpenBrace"

\* C13: under root_braces = Require, a document without an opening root
\* brace yields exactly one ImplicitBraces lint, of length 0, at the cursor
\* (line, column, byte offset) right after the leading trivia; a document
\* with explicit root braces yields none.
C13_RequiredBraceCursor ==
    pc = "linted" /\ linted.st = "Ok" /\ config.root_braces = "Require" =>
        Let(collect(text), LAMBDA toks :
            lints_of(linted.val, "ImplicitBraces") =
                IF has_root_brace(toks) THEN <<>>
                ELSE <<Lint("ImplicitBraces", cursor_at(text, leading_trivia_end(toks)), 0)>>)

\* C14: under root_braces = Deny, lint yields exactly one ImplicitBraces
\* lint if and only if the root map has an explicit opening brace; the lint
\* spans that brace, and the braces of nested maps yield none.
C14_DeniedBraceReported ==
    pc = "linted" /\ linted.st = "Ok" /\ config.root_braces = "Deny" =>
        Let(after_leading_trivia(collect(text)), LAMBDA rest :
            lints_of(linted.val, "ImplicitBraces") =
                IF rest # <<>> /\ rest[1].kind = "OpenBrace"
                THEN <<Lint("ImplicitBraces", rest[1].start, 1)>>
                ELSE <<>>)

\* a document in root braces with a member, linted under root_braces = Deny
C14_Witness ==
    /\ pc = "linted"
    /\ linted.st = "Ok"
    /\ config.root_braces = "Deny"
    /\ has_root_brace(collect(text))
    /\ Let(Parser_parse(text), LAMBDA ast : ast.st = "Ok" /\ ast.val.members # <<>>)
    /\ Len(lints_of(linted.val, "ImplicitBraces")) = 1

\* after the byte offset, whitespace and comments aside, the line or the
\* input ends: the first token that is not one of them is NewLine or Eof
line_end_follows(toks, offset) ==
    Let({i \in 1..Len(toks) :
             toks[i].start.byte_offset >= offset /\ toks[i].kind \notin HIDDEN_LINE},
        LAMBDA rest : rest # {} /\ toks[SetMin(rest)].kind \in {"NewLine", "Eof"})

\* the final members and elements of a tree, as a set
RECURSIVE final_members(_)
RECURSIVE members_final_members(_, _)

final_members(value) ==
    IF value.type = "Map" THEN members_final_members(value.map.members, 1)
    ELSE IF value.type = "Array" THEN members_final_members(value.array.members, 1)
    ELSE {}

members_final_members(members, i) ==
    IF i > Len(members) THEN {}
    ELSE (IF i = Len(members) THEN {members[i].inner} ELSE {})
         \cup final_members(members[i].inner.value)
         \cup members_final_members(members, i + 1)

\* the spans of a diagnostic list, as a set
lint_spans(lints) == {lints[j].span : j \in 1..Len(lints)}

\* C15: under trailing_commas = Deny, the TrailingComma lints are exactly
\* the commas of final members and elements that are followed, whitespace
\* and comments aside, by a newline or the end of input, each reported once
\* with the span of the comma.
C15_DeniedTrailingCommas ==
    pc = "linted" /\ linted.st = "Ok" /\ config.trailing_commas = "Deny" =>
        Let(collect(text), LAMBDA toks :
        Let(lints_of(linted.val, "TrailingComma"), LAMBDA lints :
            /\ lint_spans(lints) =
                   {[start |-> m.comma.inner[1].start, len |-> 1] :
                        m \in {f \in members_final_members(parsed.val.members, 1) :
                                   /\ f.comma.inner # None
                                   /\ line_end_follows(toks,
                                          f.comma.inner[1].start.byte_offset + 1)}}
            /\ Len(lints) = Cardinality(lint_spans(lints))))

\* a document whose final member has a comma before the end of a line and
\* whose first member has a comma too: only the final comma is reported
C15_Witness ==
    /\ pc = "linted"
    /\ linted.st = "Ok"
    /\ config.trailing_commas = "Deny"
    /\ Len(lints_of(linted.val, "TrailingComma")) = 1
    /\ Len(Parser_parse(text).val.members) > 1


\* C16: under trailing_commas = Require, lint yields exactly one zero-length
\* TrailingComma lint for each final member or element that has no comma and
\* whose value is followed, after whitespace and comments, by a newline or
\* the end of input; the lint sits at the cursor right after the value, and
\* there is none where the comma is present or the line goes on
C16_RequiredTrailingCommas ==
    pc = "linted" /\ linted.st = "Ok" /\ config.trailing_commas = "Require" =>
        Let(collect(text), LAMBDA toks :
        Let(lints_of(linted.val, "TrailingComma"), LAMBDA lints :
            /\ lint_spans(lints) = {[start |-> cursor_at(text, value_end(m.value)), len |-> 0] : m \in {f \in members_final_members(parsed.val.members, 1) : f.comma.inner = None /\ line_end_follows(toks, value_end(f.value))}}
            /\ Len(lints) = Cardinality(lint_spans(lints))))

\* a document of two lines whose last member has no comma, so that the lint
\* sits on the second line
C16_Witness ==
    /\ pc = "linted" /\ linted.st = "Ok" /\ config.trailing_commas = "Require"
    /\ Let(lints_of(linted.val, "TrailingComma"), LAMBDA lints :
           Len(lints) = 1 /\ lints[1].span.start.line = 2 /\ lints[1].span.start.column > 1)


\* the tokens of a sequence that are no trivia, and those that may start a
\* value
significant(toks) == SelectSeq(toks, LAMBDA span : span.kind \notin HIDDEN)

value_start == VALUE \cup {"OpenBrace", "OpenBracket"}

\* the missing element of the first member of a map body, as the pair of
\* the element's name and the index in `sig` of the token found in its place
\* (`from` is the index of the member's first token): a key without a colon,
\* a colon without a value, an array without `]`, a nested map without `}`
member_fault(sig, from) ==
    IF ~(from <= Len(sig) /\ sig[from].kind \in KEY) THEN None
    ELSE IF ~(from + 1 <= Len(sig) /\ sig[from + 1].kind = "Colon")
    THEN Some([expected |-> ":", at |-> from + 1])
    ELSE IF ~(from + 2 <= Len(sig) /\ sig[from + 2].kind \in value_start)
    THEN Some([expected |-> "value", at |-> from + 2])
    ELSE IF sig[from + 2].kind = "OpenBracket"
            /\ ~(from + 3 <= Len(sig) /\ sig[from + 3].kind \in value_start \cup {"CloseBracket"})
    THEN Some([expected |-> "]", at |-> from + 3])
    ELSE IF sig[from + 2].kind = "OpenBrace"
            /\ ~(from + 3 <= Len(sig) /\ sig[from + 3].kind \in KEY \cup {"CloseBrace"})
    THEN Some([expected |-> "}", at |-> from + 3])
    ELSE None

\* the index of the token after a member `key : value` with a plain value
\* and an optional comma, or 0 if no such member starts at `from`
after_plain_member(sig, from) ==
    IF from + 2 <= Len(sig) /\ sig[from].kind \in KEY /\ sig[from + 1].kind = "Colon"
       /\ sig[from + 2].kind \in VALUE
    THEN IF from + 3 <= Len(sig) /\ sig[from + 3].kind = "Comma" THEN from + 4 ELSE from + 3
    ELSE 0

\* the first fault of a document, for the documents whose fault lies in the
\* first member or at the closing brace of a root map of at most one member
first_fault(sig) ==
    IF sig # <<>> /\ sig[1].kind = "OpenBrace"
    THEN IF member_fault(sig, 2) # None THEN member_fault(sig, 2)
         ELSE IF ~(2 <= Len(sig) /\ sig[2].kind \in KEY \cup {"CloseBrace"})
         THEN Some([expected |-> "}", at |-> 2])
         ELSE Let(after_plain_member(sig, 2), LAMBDA next :
                  IF next # 0 /\ ~(next <= Len(sig) /\ sig[next].kind \in KEY \cup {"CloseBrace"})
                  THEN Some([expected |-> "}", at |-> next])
                  ELSE None)
    ELSE member_fault(sig, 1)

\* C17: a missing colon, value, `}` or `]` makes parse return a ParseError
\* whose `expected` names the missing element and whose `got` is the first
\* token that does not match, with that token's cursor; at the end of the
\* input `got` is the Eof span, also after Eof ended a member
C17_FaultsReported ==
    pc = "parsed" =>
        Let(significant(collect(text)), LAMBDA sig :
        Let(first_fault(sig), LAMBDA fault :
            fault # None =>
                /\ parsed.st = "Err"
                /\ parsed.val.expected = fault[1].expected
                /\ fault[1].at <= Len(sig)
                /\ parsed.val.got = sig[fault[1].at]
                /\ parsed.val.got.start = cursor_at(text, parsed.val.got.start.byte_offset)))


-----------------------------------------------------------------------------
(* Further claims about the lexer, checked under SpecLex.                  *)

\* the mode the lexer is in after the spans emitted so far: Value if the
\* last span that is neither trivia nor Eof is a colon, Key otherwise
mode_after(spans) ==
    Let({i \in 1..Len(spans) : spans[i].kind \notin TriviaKinds \cup {"Eof"}},
        LAMBDA solid : IF solid # {} /\ spans[SetMax(solid)].kind = "Colon"
                       THEN "Value" ELSE "Key")

\* C18: the lexer starts in Key mode, and after every emitted token sequence
\* the mode for the next token is Value after a colon, unchanged after
\* whitespace, a newline or a comment, and Key after any other token
C18_ModeFollowsTokens ==
    /\ Tokens_parse(text).text_mode = "Key"
    /\ tokens.text_mode = mode_after(emitted)

\* a colon followed by trivia and more input: the next token is read in
\* Value mode
C18_Witness ==
    /\ Len(emitted) >= 3
    /\ emitted[Len(emitted)].kind \in TriviaKinds
    /\ emitted[Len(emitted) - 1].kind = "Colon"
    /\ tokens.text_mode = "Value"
    /\ tokens.input # <<>>


\* C19: the start cursor of every span agrees with the text before it: its
\* line is 1 plus the number of newlines before its byte offset and its
\* column 1 plus the number of bytes since the last of them, also after a
\* token that spans several lines
C19_CursorMatchesText ==
    /\ \A i \in 1..Len(emitted) :
           emitted[i].start = cursor_at(text, emitted[i].start.byte_offset)
    /\ tokens.cursor = cursor_at(text, tokens.cursor.byte_offset)


\* a block comment or a multi-line string of two lines, and a span that
\* starts on the second line behind it
C19_Witness ==
    \E i \in 2..Len(emitted) :
        /\ emitted[i - 1].kind \in {"BlockComment", "TextMulti"}
        /\ emitted[i].start.line = emitted[i - 1].start.line + 1
        /\ emitted[i].start.column > 1
        /\ emitted[i].len > 0


\* the length of the longest prefix of the input that is a number by the
\* grammar of Number::parse when it stands alone, 0 if there is none
numeric_prefix_len(input) ==
    SetMax({0} \cup {n \in 1..Len(input) :
                         Let(Number_parse(take_bytes(input, n)), LAMBDA token :
                             token # None /\ token[1].len = n)})

\* the characters that may follow a number, besides the end of the input
number_followers == {"{", "}", "[", "]", ":", ",", NL}

\* the input goes on after its first `n` bytes and blanks with a character
\* that may not follow a number
runs_into_text(input, n) ==
    Let({j \in (n + 1)..Len(input) : input[j] = NL \/ ~is_whitespace(input[j])},
        LAMBDA rest : rest # {} /\ input[SetMin(rest)] \notin number_followers)

\* the length of the first line of the input without its trailing blanks
line_len_trimmed(input) ==
    Let(SetMin({Len(input)} \cup {j - 1 : j \in {k \in 1..Len(input) : input[k] = NL}}),
        LAMBDA eol : SetMax({0} \cup {k \in 1..eol : ~is_whitespace(input[k])}))

\* C20: in Value mode, where a numeric prefix is followed, after blanks, by
\* a character that is neither a newline nor one of `{ } [ ] : ,`, the lexer
\* emits no number but one TextUnquoted token that runs to the end of the
\* line, trailing blanks excluded
C20_NumberPrefixIsText ==
    \A i \in 1..Len(emitted) :
        Let(skip_bytes(text, emitted[i].start.byte_offset), LAMBDA input :
        Let(numeric_prefix_len(input), LAMBDA n :
            mode_after(SubSeq(emitted, 1, i - 1)) = "Value" /\ n > 0 /\ runs_into_text(input, n) =>
                /\ emitted[i].kind = "TextUnquoted"
                /\ emitted[i].len = line_len_trimmed(input)))

\* a value like `1 a`: digits, a blank and a letter, lexed as one text
C20_Witness ==
    \E i \in 2..Len(emitted) :
        /\ mode_after(SubSeq(emitted, 1, i - 1)) = "Value"
        /\ emitted[i].kind = "TextUnquoted"
        /\ emitted[i].len >= 3
        /\ Let(skip_bytes(text, emitted[i].start.byte_offset), LAMBDA input :
               numeric_prefix_len(input) > 0 /\ is_whitespace(input[numeric_prefix_len(input) + 1]))


\* the punctuation that ends an unquoted key, and the length of the word
\* an input starts with: everything before its first blank or punctuation
punctuation == {",", ":", "[", "]", "{", "}"}

word_len(input) ==
    SetMin({Len(input)} \cup {j - 1 : j \in {k \in 1..Len(input) :
                                                 is_whitespace(input[k]) \/ input[k] \in punctuation}})

\* the input starts with a keyword or with a digit
starts_like_literal(input) ==
    \/ input # <<>> /\ is_ascii_digit(input[1])
    \/ \E word \in {<<"t", "r", "u", "e">>, <<"f", "a", "l", "s", "e">>, <<"n", "u", "l", "l">>} :
           Len(input) >= Len(word) /\ SubSeq(input, 1, Len(word)) = word

\* C21: in Key mode the lexer emits no Boolean, Null, Integer or Float
\* token; a key that is or begins with true, false, null or a number is one
\* TextUnquoted token that ends at the first blank or punctuation character
C21_KeysAreText ==
    \A i \in 1..Len(emitted) :
        mode_after(SubSeq(emitted, 1, i - 1)) = "Key" =>
            /\ emitted[i].kind \notin {"Boolean", "Null", "Integer", "Float"}
            /\ Let(skip_bytes(text, emitted[i].start.byte_offset), LAMBDA input :
                   starts_like_literal(input) =>
                       /\ emitted[i].kind = "TextUnquoted"
                       /\ emitted[i].len = word_len(input))

\* a key that begins with a keyword and goes on, lexed as one text
C21_Witness ==
    /\ Len(emitted) >= 1
    /\ emitted[1].kind = "TextUnquoted"
    /\ emitted[1].len > 4
    /\ SubSeq(text, 1, 4) \in {<<"t", "r", "u", "e">>, <<"n", "u", "l", "l">>}


\* the number grammar -?(0|[1-9][0-9]*)(\.[0-9]+([eE][+-]?[0-9]+)?)?
is_digits(s) == s # <<>> /\ \A k \in 1..Len(s) : is_ascii_digit(s[k])

is_int(s) == s = <<"0">> \/ (is_digits(s) /\ s[1] # "0")

is_frac(s) == Len(s) >= 2 /\ s[1] = "." /\ is_digits(Tail(s))

is_exp(s) ==
    /\ Len(s) >= 2
    /\ s[1] \in {"e", "E"}
    /\ is_digits(Tail(s)) \/ (s[2] \in {"+", "-"} /\ is_digits(SubSeq(s, 3, Len(s))))

is_unsigned(s) ==
    \E a \in 1..Len(s) :
        /\ is_int(SubSeq(s, 1, a))
        /\ \/ a = Len(s)
           \/ \E b \in (a + 1)..Len(s) :
                  /\ is_frac(SubSeq(s, a + 1, b))
                  /\ b = Len(s) \/ is_exp(SubSeq(s, b + 1, Len(s)))

is_number(s) == s # <<>> /\ is_unsigned(IF s[1] = "-" THEN Tail(s) ELSE s)

\* the lengths of the prefixes of the input that have the form of a number
\* and are followed by a valid terminator
number_matches(input) ==
    {n \in 1..Len(input) : is_number(SubSeq(input, 1, n)) /\ ~runs_into_text(input, n)}

\* C22: where a value is lexed, a number token is emitted if and only if
\* the input starts with a prefix of the number grammar followed by a valid
\* terminator; the token has the length of that prefix, and its kind is
\* Float if the prefix has a fractional part and Integer otherwise
C22_NumberGrammar ==
    \A i \in 1..Len(emitted) :
        mode_after(SubSeq(emitted, 1, i - 1)) = "Value" =>
            Let(skip_bytes(text, emitted[i].start.byte_offset), LAMBDA input :
            Let(number_matches(input), LAMBDA matches :
                /\ emitted[i].kind \in {"Integer", "Float"} <=> matches # {}
                /\ matches # {} =>
                       /\ matches = {emitted[i].len}
                       /\ emitted[i].kind = "Float"
                              <=> \E k \in 1..emitted[i].len : input[k] = "."))


\* the number of digits of the input from index `from` on
digits_from(input, from) ==
    SetMin({Len(input) + 1} \cup {k \in from..Len(input) : ~is_ascii_digit(input[k])}) - from

\* the index behind the optional sign and the integer part of the input
int_end(input) ==
    Let(IF input # <<>> /\ input[1] = "-" THEN 2 ELSE 1, LAMBDA from :
        IF from <= Len(input) /\ input[from] = "0" THEN from + 1
        ELSE from + digits_from(input, from))

\* the index behind the fractional part that follows the integer part, if any
frac_end(input) ==
    Let(int_end(input), LAMBDA at :
        IF at <= Len(input) /\ input[at] = "." /\ digits_from(input, at + 1) > 0
        THEN at + 1 + digits_from(input, at + 1)
        ELSE at)

\* the input is none of the numbers of the grammar: it starts with `+`, has
\* no integer digits, has a leading zero before a digit, a decimal point
\* without a digit behind it, or an exponent marker without a digit behind it
malformed_number(input) ==
    \/ input # <<>> /\ input[1] = "+"
    \/ int_end(input) = (IF input # <<>> /\ input[1] = "-" THEN 2 ELSE 1)
    \/ Let(int_end(input), LAMBDA at :
           /\ 1 < at /\ at <= Len(input)
           /\ \/ input[at - 1] = "0" /\ is_ascii_digit(input[at])
              \/ input[at] = "." /\ digits_from(input, at + 1) = 0)
    \/ Let(frac_end(input), LAMBDA at :
           /\ at <= Len(input)
           /\ input[at] \in {"e", "E"}
           /\ digits_from(input, IF at + 1 <= Len(input) /\ input[at + 1] \in {"+", "-"}
                                 THEN at + 2 ELSE at + 1) = 0)

\* C23: for an input that starts with `+`, has no integer digits, a leading
\* zero before a digit, a decimal point without a digit or an exponent
\* marker without a digit, the number recognizer returns no match at all,
\* and the lexer emits no number token for a value that starts so
C23_MalformedNumberIsNoNumber ==
    /\ \A i \in 1..Len(emitted) :
           emitted[i].kind \in {"Integer", "Float"}
           /\ mode_after(SubSeq(emitted, 1, i - 1)) = "Value"
               => ~malformed_number(skip_bytes(text, emitted[i].start.byte_offset))
    /\ malformed_number(tokens.input) => Number_parse(tokens.input) = None

\* a value of digits, a fraction and an exponent marker with a sign but no
\* digit, lexed as text
C23_Witness ==
    /\ Len(emitted) >= 2
    /\ emitted[1].kind = "Colon"
    /\ emitted[2].kind = "TextUnquoted"
    /\ Len(text) >= 7
    /\ SubSeq(text, 2, 6) = <<"1", ".", "1", "e", "+">>
    /\ malformed_number(Tail(text))


\* the nested maps of a tree: the maps that are the value of a member or of
\* an array element, at any depth
RECURSIVE nested_maps(_)
RECURSIVE members_nested_maps(_, _)

nested_maps(value) ==
    IF value.type = "Map"
    THEN {value.map} \cup members_nested_maps(value.map.members, 1)
    ELSE IF value.type = "Array" THEN members_nested_maps(value.array.members, 1)
    ELSE {}

members_nested_maps(members, i) ==
    IF i > Len(members) THEN {}
    ELSE nested_maps(members[i].inner.value) \cup members_nested_maps(members, i + 1)

\* the brace slot of a map holds a span of the given kind
has_brace(node, kind) == node.inner # None /\ node.inner[1].kind = kind

\* C24: in every tree that parse returns, each nested map has its opening
\* and its closing brace, and the root map has both braces or neither
C24_BracesPaired ==
    pc = "parsed" /\ parsed.st = "Ok" =>
        /\ \/ has_brace(parsed.val.open_brace, "OpenBrace")
              /\ has_brace(parsed.val.close_brace, "CloseBrace")
           \/ parsed.val.open_brace.inner = None /\ parsed.val.close_brace.inner = None
        /\ \A map \in members_nested_maps(parsed.val.members, 1) :
               /\ has_brace(map.open_brace, "OpenBrace")
               /\ has_brace(map.close_brace, "CloseBrace")

\* a root map without braces whose member has a nested map with a member of
\* its own as value
C24_Witness ==
    /\ pc = "parsed" /\ parsed.st = "Ok"
    /\ parsed.val.open_brace.inner = None
    /\ \E map \in members_nested_maps(parsed.val.members, 1) : map.members # <<>>


\* every member and element of a tree, at any depth
RECURSIVE all_members(_)
RECURSIVE members_all_members(_, _)

all_members(value) ==
    IF value.type = "Map" THEN members_all_members(value.map.members, 1)
    ELSE IF value.type = "Array" THEN members_all_members(value.array.members, 1)
    ELSE {}

members_all_members(members, i) ==
    IF i > Len(members) THEN {}
    ELSE {members[i].inner} \cup all_members(members[i].inner.value)
         \cup members_all_members(members, i + 1)

\* the first token at or behind a byte offset that is neither whitespace nor
\* a comment is a comma
comma_follows(toks, offset) ==
    Let({i \in 1..Len(toks) :
             toks[i].start.byte_offset >= offset /\ toks[i].kind \notin HIDDEN_LINE},
        LAMBDA rest : rest # {} /\ toks[SetMin(rest)].kind = "Comma")

\* the tokens of a sequence that are neither whitespace nor comments
on_lines(toks) == SelectSeq(toks, LAMBDA span : span.kind \notin HIDDEN_LINE)

\* a member `key : value` (width 3) or an element (width 1) with a plain
\* value starts at index i
item_at(ts, i, width) ==
    /\ i + width - 1 <= Len(ts)
    /\ ts[i + width - 1].kind \in VALUE
    /\ width = 3 => ts[i].kind \in KEY /\ ts[i + 1].kind = "Colon"

\* from index i on, the tokens are items separated by a comma, by newlines
\* or by both, with an optional comma behind the last one, up to the closer:
\* the index of the closer, or 0 if the tokens are not of that form
RECURSIVE separated_items(_, _, _, _)
RECURSIVE separated_items_next(_, _, _, _, _)

separated_items(ts, i, width, closer) ==
    IF i > Len(ts) THEN 0
    ELSE IF ts[i].kind = "NewLine" THEN separated_items(ts, i + 1, width, closer)
    ELSE IF ts[i].kind = closer THEN i
    ELSE IF item_at(ts, i, width)
    THEN separated_items_next(ts, i + width, width, closer,
                              i + width <= Len(ts) /\ ts[i + width].kind = "Comma")
    ELSE 0

separated_items_next(ts, j, width, closer, comma) ==
    IF comma THEN separated_items(ts, j + 1, width, closer)
    ELSE IF j <= Len(ts) /\ ts[j].kind \in {"NewLine", closer}
    THEN separated_items(ts, j, width, closer)
    ELSE 0

\* behind index n only newlines and the end of the input follow
only_newlines_behind(ts, n) ==
    /\ 0 < n /\ n < Len(ts)
    /\ ts[Len(ts)].kind = "Eof"
    /\ \A k \in (n + 1)..(Len(ts) - 1) : ts[k].kind = "NewLine"

\* a document of members with plain values, without or with root braces, or
\* of one member whose value is an array of plain elements
well_separated(ts) ==
    \/ separated_items(ts, 1, 3, "Eof") # 0
    \/ /\ ts # <<>> /\ ts[1].kind = "OpenBrace"
       /\ only_newlines_behind(ts, separated_items(ts, 2, 3, "CloseBrace"))
    \/ /\ Len(ts) > 3 /\ ts[1].kind \in KEY /\ ts[2].kind = "Colon"
       /\ ts[3].kind = "OpenBracket"
       /\ only_newlines_behind(ts, separated_items(ts, 4, 1, "CloseBracket"))

\* C25: parse succeeds on maps and arrays whose members are separated by a
\* comma, by a newline or by both, also with a comma behind the last member;
\* in the tree a member's comma slot holds a comma if and only if a comma
\* token follows the member's value after whitespace and comments of the
\* same line
C25_SeparatorsOptional ==
    pc = "parsed" =>
        Let(collect(text), LAMBDA toks :
            /\ well_separated(on_lines(toks)) => parsed.st = "Ok"
            /\ parsed.st = "Ok" =>
                   \A member \in members_all_members(parsed.val.members, 1) :
                       member.comma.inner # None
                           <=> comma_follows(toks, value_end(member.value)))


\* an array whose elements are separated by a newline only and whose last
\* element has a comma before the closing bracket
C25_Witness ==
    /\ pc = "parsed" /\ parsed.st = "Ok"
    /\ Len(parsed.val.members) = 1
    /\ parsed.val.members[1].inner.value.type = "Array"
    /\ Let(parsed.val.members[1].inner.value.array.members, LAMBDA elements :
           /\ Len(elements) = 2
           /\ elements[1].inner.comma.inner = None
           /\ elements[2].inner.comma.inner # None)


-----------------------------------------------------------------------------
(* Further claims about the lexer's keywords, checked under SpecLex.       *)

\* the input ends, or goes on with a blank or a punctuation character,
\* behind its first n bytes
word_ends(input, n) ==
    n >= Len(input) \/ is_whitespace(input[n + 1]) \/ input[n + 1] \in punctuation

\* C26: no unquoted word is split by a keyword recognizer: behind every
\* Boolean or Null token the input ends or goes on with whitespace, a
\* newline or one of `{ } [ ] : ,`, in key position and in value position
C26_KeywordsAreWholeWords ==
    \A i \in 1..Len(emitted) :
        emitted[i].kind \in {"Boolean", "Null"} =>
            word_ends(text, emitted[i].start.byte_offset + emitted[i].len)

-----------------------------------------------------------------------------
(* Termination of the lexer and the parser, checked under SpecLex.         *)

\* Parser::skip from index pos takes a run of tokens and stops inside the
\* token list or right behind it
skip_stops(toks, pos, kinds) ==
    Let(skip(toks, pos, kinds), LAMBDA skipped :
        /\ skipped.pos \in pos..(Len(toks) + 1)
        /\ Len(skipped.ret) = skipped.pos - pos)

-----------------------------------------------------------------------------
(* Properties of the event-stream parser, checked under SpecEvents.        *)

\* how many of the first n events have the given type
count_events(list, n, type) == Cardinality({i \in 1..n : list[i].type = type})

\* the Open event at index i is still an ErrorTree
is_error_open(list, i) == list[i].type = "Open" /\ list[i].kind = "ErrorTree"

\* C27: when the event-stream Parser::parse returns, its events are well
\* nested: the first is Open File, the last is Close, no prefix has more Close
\* than Open events, the totals are equal, and an Open that is still an
\* ErrorTree is followed by one Advance and its Close; Tree::build then passes
\* both assertions and returns a File tree.
C27_EventsWellNested ==
    /\ pc \in {"streamed", "built"} /\ streamed.st = "Ok" =>
           Let(streamed.events, LAMBDA list :
               /\ list # <<>>
               /\ list[1] = EventOpen("File")
               /\ list[Len(list)] = EventClose
               /\ \A n \in 1..Len(list) :
                      count_events(list, n, "Open") >= count_events(list, n, "Close")
               /\ count_events(list, Len(list), "Open")
                      = count_events(list, Len(list), "Close")
               /\ \A i \in 1..Len(list) :
                      is_error_open(list, i) =>
                          /\ i + 2 <= Len(list)
                          /\ list[i + 1].type = "Advance"
                          /\ list[i + 2] = EventClose)
    /\ pc = "built" => built.st = "Ok" /\ built.val.kind = "File"

\* a mapping and an error node in one built tree
C27_Witness ==
    /\ pc = "built"
    /\ built.st = "Ok"
    /\ \E i \in 1..Len(streamed.events) : is_error_open(streamed.events, i)
    /\ \E i \in 1..Len(streamed.events) : streamed.events[i] = EventOpen("Mapping")
    /\ \E i \in 1..Len(streamed.events) : streamed.events[i] = EventOpen("Array")


-----------------------------------------------------------------------------
(* Properties of array elements, checked under SpecArrays.                 *)

\* every array of a tree, at any depth
RECURSIVE nested_arrays(_)
RECURSIVE members_nested_arrays(_, _)

nested_arrays(value) ==
    IF value.type = "Array"
    THEN {value.array} \cup members_nested_arrays(value.array.members, 1)
    ELSE IF value.type = "Map" THEN members_nested_arrays(value.map.members, 1)
    ELSE {}

members_nested_arrays(members, i) ==
    IF i > Len(members) THEN {}
    ELSE nested_arrays(members[i].inner.value) \cup members_nested_arrays(members, i + 1)

\* the spans of the scalar elements of an array
scalar_elements(array) ==
    {array.members[i].inner.value.span :
         i \in {j \in 1..Len(array.members) : array.members[j].inner.value.type = "Value"}}

\* C28: in every tree that parse returns, a scalar array element is a
\* TextSingle, TextDouble or TextUnquoted token, never a Boolean, Null,
\* Integer, Float or TextMulti, and an unquoted element ends at the first
\* blank or punctuation character
C28_ArrayElementsAreText ==
    pc = "parsed" /\ parsed.st = "Ok" =>
        \A array \in members_nested_arrays(parsed.val.members, 1) :
            \A span \in scalar_elements(array) :
                /\ span.kind \in {"TextSingle", "TextDouble", "TextUnquoted"}
                /\ span.kind = "TextUnquoted" =>
                       span.len = word_len(skip_bytes(text, span.start.byte_offset))

\* an array that holds a keyword and a number as elements
C28_Witness ==
    /\ pc = "parsed" /\ parsed.st = "Ok"
    /\ \E array \in members_nested_arrays(parsed.val.members, 1) :
           \E word, number \in scalar_elements(array) :
               /\ text[word.start.byte_offset + 1] \in {"n", "t"}
               /\ is_ascii_digit(text[number.start.byte_offset + 1])

-----------------------------------------------------------------------------
(* The unused axes of the configuration, checked under Spec.               *)

\* the configurations that differ from cfg in unquoted_values and
\* unquoted_keys at most
unquoted_variants(cfg) ==
    {[cfg EXCEPT !.unquoted_values = values, !.unquoted_keys = keys] :
         values \in AllowDenyRequire, keys \in AllowDenyRequire}

====
